---- MODULE Spec2Model ----
(***************************************************************************)
(* A model of the standup bot: the in-memory interview sessions            *)
(* (userStates, standupResponses), the SQLite tables (subscriptions,       *)
(* standups, settings, late_reminders), the node-schedule jobs, and the    *)
(* asynchronous handlers of the Telegram events.  A handler is an async    *)
(* function: it runs atomically from one await to the next, and other      *)
(* handlers run in between.  Each in-flight handler is a record in tasks   *)
(* whose pc names the await it is suspended at.                            *)
(***************************************************************************)
EXTENDS Integers, Sequences, FiniteSets, TLC

(***************************************************************************)
(* Bounds of the model.                                                    *)
(***************************************************************************)
NumUsers == 2          \* Telegram users 1..NumUsers
MaxTasks == 2          \* handlers in flight at the same time
MaxEvents == 7         \* inbound Telegram events of a run of the interview engine
MaxLateEvents == 3     \* inbound Telegram events of a run of the late-reminder check

(***************************************************************************)
(* Program constants.                                                      *)
(***************************************************************************)
NumQuestions == 3      \* QUESTIONS.length
MinutesPerDay == 1440
MinutesPerHour == 60
DaysPerWeek == 7
DefaultHour == 9         \* settings row ('standup_hour', '9')
DefaultMinute == 0       \* settings row ('standup_minute', '0')
DefaultLateHours == 4    \* settings row ('late_reminder_hours', '4')

Users == 1..NumUsers
Slots == 1..MaxTasks

None == "none"              \* no username, no message
NoDate == 0 - 1             \* a NULL vacation_until
Undef == "undefined"        \* a hole of a JavaScript array
Skipped == ""               \* the empty string /skip stores
Texts == {"x", "y"}         \* the texts of free-text messages

\* msg.from.username of each user: user 2 has set no Telegram username.
FromUsername(u) == IF u = 1 THEN "ann" ELSE IF u = 2 THEN None ELSE "bob"
\* msg.from.first_name of each user.
FromFirstName(u) == IF u = 1 THEN "Ann" ELSE IF u = 2 THEN "ann" ELSE "Bob"
\* msg.from.username || msg.from.first_name
FromName(u) == IF FromUsername(u) # None THEN FromUsername(u) ELSE FromFirstName(u)

VARIABLES
  userStates,        \* Map userId -> currentQuestion
  standupResponses,  \* Map userId -> {username, answers}
  subscriptions,     \* table subscriptions: user_id -> row
  standups,          \* table standups: the rows, in insertion order
  tasks,             \* the handlers in flight, one per slot
  pendingStart,      \* startUserStandup calls whose getChat promise is pending
  now,               \* the wall clock, in minutes of local time since day 0, 00:00
  utcOffset,         \* minutes the process's local time is ahead of UTC
  lastReply,         \* the last message the bot sent to each user's chat
  nCompleted,        \* per user: sessions that reached Completed
  nEmitted,          \* per user: summaries sent to the channel
  channel,           \* per user: the last summary sent to the channel
  nPersistFailed,    \* per user: completions whose addStandup rejected
  nEvents,           \* inbound events received so far
  settings,          \* table settings: standup_hour, standup_minute, late_reminder_*
  lateReminders,     \* table late_reminders: the rows, in insertion order
  cronJobs,          \* the live recurring jobs of node-schedule: {id, hour, minute}
  standupJob,        \* global.standupJob: the id of the job scheduleStandups kept
  jobsCreated,       \* recurring jobs created so far
  reschedules,       \* scheduleStandups calls awaiting db.getStandupTime()
  lateJobs,          \* the pending one-shot jobs of scheduleLateReminders: their dates
  lateChecks,        \* the firings of one-shot jobs that are still running
  ticks,             \* the firings of recurring jobs that are still running
  opened,            \* the users the trigger called startUserStandup for at minute now
  tickFailed,        \* a firing at minute now ended in its catch
  lateSent,          \* per user: the late reminders sent, with the facts at each send
  lateRuns,          \* the checks of minute now that ran to their end, and whether
                     \* an await of a check of minute now was rejected
  samples,           \* the minutes of the day at which the run reads the clock
  eventBudget,       \* the inbound events the run receives at most
  hourCycle,         \* how the build's ICU prints midnight with hour12: false
  horizon,           \* the last minute the run covers
  actors,            \* the users who send events in the run
  members,           \* the users isChannelMember answers true for
  nStarted,          \* per user: sessions startUserStandup created
  lastCompletion     \* per user: the answers of the latest session that completed

sessionVars == <<userStates, standupResponses>>
dbVars == <<subscriptions, standups, settings, lateReminders>>
jobVars == <<cronJobs, standupJob, jobsCreated, reschedules, lateJobs>>
envVars == <<now, utcOffset, hourCycle, horizon, actors, samples, eventBudget>>
countVars == <<nCompleted, nEmitted, channel, nPersistFailed, nStarted,
               lastCompletion>>
tickVars == <<ticks, opened, tickFailed>>
lateVars == <<lateChecks, lateSent, lateRuns>>

vars == <<sessionVars, dbVars, jobVars, tasks, tickVars, lateVars, pendingStart,
          envVars, members, lastReply, countVars, nEvents>>

Idle == [kind |-> "idle"]

Day(t) == t \div MinutesPerDay
MinuteOfDay(t) == t % MinutesPerDay

\* new Map() entries of a fresh response object
EmptyAnswers == <<Undef, Undef, Undef>>
SkipAnswers == <<Skipped, Skipped, Skipped>>

(***************************************************************************)
(* Helpers on the in-memory Maps and on the handlers in flight.            *)
(***************************************************************************)
\* A JavaScript Map, or a table with a primary key, is a function whose
\* domain is the keys it holds.
Has(m, k) == k \in DOMAIN m
Delete(m, k) == [x \in DOMAIN m \ {k} |-> m[x]]
Set(m, k, v) == [x \in DOMAIN m \cup {k} |-> IF x = k THEN v ELSE m[x]]
EmptyMap == [x \in {} |-> None]

HasFree == \E s \in Slots : tasks[s] = Idle
FreeSlot == CHOOSE s \in Slots : tasks[s] = Idle /\ \A r \in 1..(s - 1) : tasks[r] # Idle

\* A handler suspended inside db.addStandup holds `response`, a reference to
\* the object it took from (or put into) standupResponses.
Completing(t) == t.kind \in {"message", "skip"} /\ t.pc \in {"delete", "insert"}
\* The handlers whose `response` is the very object standupResponses holds
\* for u see every later write to that object.
Alias(ts, u, r) ==
  [s \in Slots |->
     IF Completing(ts[s]) /\ ts[s].user = u /\ ts[s].shared
     THEN [ts[s] EXCEPT !.response = r] ELSE ts[s]]
\* standupResponses.delete(u): the handlers keep their object, the Map no
\* longer holds it.
Detach(ts, u) ==
  [s \in Slots |->
     IF Completing(ts[s]) /\ ts[s].user = u /\ ts[s].shared
     THEN [ts[s] EXCEPT !.shared = FALSE] ELSE ts[s]]

Reply(u, m) == lastReply' = [lastReply EXCEPT ![u] = m]

(***************************************************************************)
(* Inbound events.  The handler runs to its first await, the one inside    *)
(* isChannelMember, without touching any state.                            *)
(***************************************************************************)
Receive(t) ==
  /\ HasFree
  /\ nEvents < eventBudget
  /\ tasks' = [tasks EXCEPT ![FreeSlot] = t]
  /\ nEvents' = nEvents + 1
  /\ UNCHANGED <<sessionVars, dbVars, jobVars, tickVars, lateVars, pendingStart, envVars,
                 members, lastReply, countVars>>

ReceiveStandup ==
  \E u \in actors : Receive([kind |-> "standup", user |-> u, pc |-> "guard"])

ReceiveMessage ==
  \E u \in actors, text \in Texts :
    Receive([kind |-> "message", user |-> u, pc |-> "guard", text |-> text])

ReceiveSkip ==
  \E u \in actors : Receive([kind |-> "skip", user |-> u, pc |-> "guard"])

(***************************************************************************)
(* /standup: commandGuard, the userStates.has check, db.isSubscribed,      *)
(* startUserStandup.                                                       *)
(***************************************************************************)
\* isChannelMember(userId): the bot and the user are in the channel; any
\* error of the Telegram calls answers false.
isChannelMember(u) == u \in members

StandupGuard(s) ==
  LET t == tasks[s]
      u == t.user
  IN /\ t.kind = "standup" /\ t.pc = "guard"
     /\   IF ~isChannelMember(u)
          THEN /\ Reply(u, "notMember")
               /\ tasks' = [tasks EXCEPT ![s] = Idle]
          ELSE IF Has(userStates, u)
          THEN /\ Reply(u, "alreadyOngoing")
               /\ tasks' = [tasks EXCEPT ![s] = Idle]
          ELSE /\ tasks' = [tasks EXCEPT ![s].pc = "isSubscribed"]
               /\ UNCHANGED lastReply
     /\ UNCHANGED <<sessionVars, dbVars, jobVars, tickVars, lateVars, pendingStart, envVars,
                    members, countVars, nEvents>>

\* startUserStandup(userId): bot.getChat(userId) is called and its promise
\* is left pending; the caller goes on.
startUserStandup(ps, u) == [ps EXCEPT ![u] = @ + 1]

StandupIsSubscribed(s) ==
  LET t == tasks[s]
      u == t.user
  IN /\ t.kind = "standup" /\ t.pc = "isSubscribed"
     /\ tasks' = [tasks EXCEPT ![s] = Idle]
     /\ \E ok \in BOOLEAN :
          IF ~ok
          THEN Reply(u, "errorStarting") /\ UNCHANGED pendingStart
          ELSE IF ~Has(subscriptions, u)
          THEN Reply(u, "needSubscribe") /\ UNCHANGED pendingStart
          ELSE /\ pendingStart' = startUserStandup(pendingStart, u)
               /\ UNCHANGED lastReply
     /\ UNCHANGED <<sessionVars, dbVars, jobVars, tickVars, lateVars, envVars, members,
                    countVars, nEvents>>

\* The .then of startUserStandup: userStates.set(userId, {currentQuestion: 0})
\* and the first question; the .catch only logs.
StartResolve ==
  \E u \in Users :
    /\ pendingStart[u] > 0
    /\ pendingStart' = [pendingStart EXCEPT ![u] = @ - 1]
    /\ \E ok \in BOOLEAN :
         IF ok
         THEN /\ userStates' = Set(userStates, u, 0)
              /\ Reply(u, "question")
              /\ nStarted' = [nStarted EXCEPT ![u] = @ + 1]
         ELSE UNCHANGED <<userStates, lastReply, nStarted>>
    /\ UNCHANGED <<standupResponses, dbVars, jobVars, tasks, tickVars, lateVars, envVars,
                   members, nCompleted, nEmitted, channel, nPersistFailed,
                   lastCompletion, nEvents>>

(***************************************************************************)
(* db.addStandup, in its two awaited statements.                           *)
(***************************************************************************)
\* datetime(submitted_at) BETWEEN datetime(today_start) AND datetime(today_end):
\* submitted_at holds local time, the two bounds are toISOString() (UTC) of
\* the local midnight and of the local 23:59:59.999 of the day of the call.
InDeleteWindow(submittedAt, callDay, off) ==
  /\ callDay * MinutesPerDay - off <= submittedAt
  /\ submittedAt <= callDay * MinutesPerDay + (MinutesPerDay - 1) - off

\* DELETE FROM standups WHERE user_id = ? AND datetime(submitted_at) BETWEEN ...
DeleteTodayStandups(rows, u, callDay, off) ==
  SelectSeq(rows, LAMBDA r :
    ~(r.user_id = u /\ InDeleteWindow(r.submitted_at, callDay, off)))

\* INSERT INTO standups (...) VALUES (?, ?, ?, ?, ?, datetime('now', 'localtime'))
InsertStandup(rows, u, username, answers, at) ==
  Append(rows, [user_id |-> u, username |-> username, answers |-> answers,
                submitted_at |-> at])

(***************************************************************************)
(* The answer to the current question, by a free-text message or by /skip. *)
(* The synchronous part common to both handlers: store the answer in the   *)
(* response object, then move to the next question or complete.            *)
(***************************************************************************)
\* standupResponses.get(userId) || fresh, with answers[currentQuestion] set
Answered(u, fresh, value) ==
  LET r == IF Has(standupResponses, u) THEN standupResponses[u] ELSE fresh
  IN [r EXCEPT !.answers[userStates[u] + 1] = value]

\* The session kept in userStates while addStandup is awaited.
SessionKept(us, u) == us
\* userStates.delete(userId), before await db.addStandup
SessionDeleted(us, u) == Delete(us, u)

AcceptAnswer(s, fresh, value) ==
  LET u == tasks[s].user
      q == userStates[u]
      r == Answered(u, fresh, value)
  IN /\ standupResponses' = Set(standupResponses, u, r)
     /\ IF q < NumQuestions - 1
        THEN /\ userStates' = Set(userStates, u, q + 1)
             /\ Reply(u, "question")
             /\ tasks' = [Alias(tasks, u, r) EXCEPT ![s] = Idle]
             /\ UNCHANGED <<nCompleted, lastCompletion>>
        ELSE \* userStates.delete(userId); db.addStandup(...) runs to its
             \* first await with the arguments read now
             /\ userStates' = SessionDeleted(userStates, u)
             /\ tasks' = [Alias(tasks, u, r) EXCEPT ![s] =
                            [kind |-> tasks[s].kind, user |-> u, pc |-> "delete",
                             args |-> r, callDay |-> Day(now),
                             response |-> r, shared |-> TRUE]]
             /\ nCompleted' = [nCompleted EXCEPT ![u] = @ + 1]
             /\ lastCompletion' = Set(lastCompletion, u, r.answers)
             /\ UNCHANGED lastReply

\* An event answered with a warning that no standup is going on.
IgnoredWithWarning(s) ==
  /\ tasks' = [tasks EXCEPT ![s] = Idle]
  /\ Reply(tasks[s].user, "noSession")
  /\ UNCHANGED <<sessionVars, nCompleted, lastCompletion>>

\* The handler returns: the event is for nobody's session.
Ignored(s) ==
  /\ tasks' = [tasks EXCEPT ![s] = Idle]
  /\ UNCHANGED <<sessionVars, lastReply, nCompleted, lastCompletion>>

\* bot.on('message'): after isChannelMember, the whole handler up to
\* await db.addStandup.
MessageGuard(s) ==
  LET t == tasks[s]
      u == t.user
  IN /\ t.kind = "message" /\ t.pc = "guard"
     /\   IF ~isChannelMember(u) \/ ~Has(userStates, u)
          THEN Ignored(s)
          ELSE AcceptAnswer(s, [username |-> FromName(u), answers |-> EmptyAnswers],
                            t.text)
     /\ UNCHANGED <<dbVars, jobVars, tickVars, lateVars, pendingStart, envVars, members,
                    nEmitted, channel, nPersistFailed, nStarted, nEvents>>

\* A skip everywhere but on the first question.
CanSkipButFirst(q) == q = 1 \/ q = 2
\* state.currentQuestion === 0 || state.currentQuestion === 2
CanSkip(q) == q = 0 \/ q = 2

\* /skip: commandGuard, then the whole handler up to await db.addStandup.
SkipGuard(s) ==
  LET t == tasks[s]
      u == t.user
  IN /\ t.kind = "skip" /\ t.pc = "guard"
     /\   IF ~isChannelMember(u)
          THEN /\ Reply(u, "notMember")
               /\ tasks' = [tasks EXCEPT ![s] = Idle]
               /\ UNCHANGED <<sessionVars, nCompleted, lastCompletion>>
          ELSE IF ~Has(userStates, u)
          THEN Ignored(s)
          ELSE IF CanSkip(userStates[u])
          THEN AcceptAnswer(s, [username |-> FromName(u), answers |-> SkipAnswers],
                            Skipped)
          ELSE /\ Reply(u, "cannotSkip")
               /\ tasks' = [tasks EXCEPT ![s] = Idle]
               /\ UNCHANGED <<sessionVars, nCompleted, lastCompletion>>
     /\ UNCHANGED <<dbVars, jobVars, tickVars, lateVars, pendingStart, envVars, members,
                    nEmitted, channel, nPersistFailed, nStarted, nEvents>>

\* A rejected await db.addStandup.  bot.on('message') catches it: it tells
\* the user and deletes both Map entries.  The /skip handler has no
\* try/catch: the rejection ends the handler.
AddStandupRejected(s) ==
  LET t == tasks[s]
      u == t.user
  IN /\ nPersistFailed' = [nPersistFailed EXCEPT ![u] = @ + 1]
     /\ IF t.kind = "message"
        THEN /\ Reply(u, "errorProcessing")
             /\ userStates' = Delete(userStates, u)
             /\ standupResponses' = Delete(standupResponses, u)
             /\ tasks' = [Detach(tasks, u) EXCEPT ![s] = Idle]
        ELSE /\ tasks' = [tasks EXCEPT ![s] = Idle]
             /\ UNCHANGED <<sessionVars, lastReply>>
     /\ UNCHANGED <<dbVars, nEmitted, channel>>

\* A text of nothing but white space.
Blank == " "

\* String.prototype.trim() on the texts of the model
Trim(text) == IF text = Blank THEN "" ELSE text

\* A test of the answer that does not trim it.
HasTextUntrimmed(answer) == answer # Undef /\ answer # ""

\* answers[i] && answers[i].trim(): undefined and '' are falsy
HasText(answer) == answer # Undef /\ answer # "" /\ Trim(answer) # ""

\* formatStandupResponse(response): the header with the username, the
\* Yesterday section if answers[0] has text, the Today section, the
\* Blockers section if answers[2] has text, the time of the submission.
formatStandupResponse(response) ==
  [username |-> response.username,
   sections |->
     (IF HasText(response.answers[1])
      THEN <<[title |-> "Yesterday", text |-> response.answers[1]]>> ELSE <<>>)
     \o <<[title |-> "Today", text |-> response.answers[2]]>>
     \o (IF HasText(response.answers[3])
         THEN <<[title |-> "Blockers", text |-> response.answers[3]]>> ELSE <<>>),
   submitted |-> now]

\* The DELETE of addStandup completes.
AddStandupDelete(s) ==
  LET t == tasks[s]
  IN /\ Completing(t) /\ t.pc = "delete"
     /\ \E ok \in BOOLEAN :
          IF ok
          THEN /\ standups' = DeleteTodayStandups(standups, t.user, t.callDay,
                                                  utcOffset)
               /\ tasks' = [tasks EXCEPT ![s].pc = "insert"]
               /\ UNCHANGED <<subscriptions, settings, lateReminders, sessionVars,
                              lastReply, nEmitted, channel, nPersistFailed>>
          ELSE AddStandupRejected(s)
     /\ UNCHANGED <<jobVars, tickVars, lateVars, pendingStart, envVars, members, nCompleted,
                    nStarted, lastCompletion, nEvents>>

\* The INSERT of addStandup completes and the handler runs to its end:
\* the summary to the channel, the thanks to the user,
\* standupResponses.delete(userId).
AddStandupInsert(s) ==
  LET t == tasks[s]
      u == t.user
  IN /\ Completing(t) /\ t.pc = "insert"
     /\ \E ok \in BOOLEAN :
          IF ok
          THEN /\ standups' = InsertStandup(standups, u, t.args.username,
                                            t.args.answers, now)
               /\ nEmitted' = [nEmitted EXCEPT ![u] = @ + 1]
               /\ channel' = Set(channel, u, formatStandupResponse(t.response))
               /\ Reply(u, "thanks")
               /\ standupResponses' = Delete(standupResponses, u)
               /\ tasks' = [Detach(tasks, u) EXCEPT ![s] = Idle]
               /\ UNCHANGED <<subscriptions, settings, lateReminders, userStates,
                              nPersistFailed>>
          ELSE AddStandupRejected(s)
     /\ UNCHANGED <<jobVars, tickVars, lateVars, pendingStart, envVars, members, nCompleted,
                    nStarted, lastCompletion, nEvents>>

(***************************************************************************)
(* Time.  now counts minutes of the process's local time (TZ is            *)
(* Europe/Lisbon, as the README configures it); day 0 is a Monday.         *)
(***************************************************************************)
Weekday(d) == d % DaysPerWeek < 5
TimeOfDay(h, m) == h * MinutesPerHour + m

DefaultTimezone == "Europe/Lisbon"
Timezones == {"Europe/Lisbon", "America/New_York"}
\* Minutes a zone's wall clock is ahead of the process's: New York is five
\* hours behind Lisbon.
TzOffset(tz) == IF tz = "America/New_York" THEN 0 - 5 * MinutesPerHour ELSE 0

\* The wall clock of zone tz at t, as minutes of its day.
LocalMinuteOfDay(tz, t) == MinuteOfDay(t + TzOffset(tz) + MinutesPerDay)

\* new Date().toLocaleString('en-US', {timeZone, hour: 'numeric',
\* minute: 'numeric', hour12: false}).split(':').map(Number): a build whose
\* ICU resolves hour12: false to the h24 cycle prints midnight as 24.
UserTime(tz, t) ==
  LET h == LocalMinuteOfDay(tz, t) \div MinutesPerHour
  IN [hour |-> IF h = 0 /\ hourCycle = "h24" THEN 24 ELSE h,
      minute |-> LocalMinuteOfDay(tz, t) % MinutesPerHour]

(***************************************************************************)
(* Table subscriptions.                                                    *)
(***************************************************************************)
\* INSERT OR REPLACE INTO subscriptions (user_id, username): the other
\* columns take their defaults.
NewSubscription(username) ==
  [username |-> username, timezone |-> DefaultTimezone,
   is_on_vacation |-> FALSE, vacation_until |-> NoDate]

\* A vacation taken as over on its last day.
IsActiveRowOnLastDay(row, t) ==
  \/ ~row.is_on_vacation
  \/ (row.vacation_until # NoDate /\ row.vacation_until <= Day(t))

\* getActiveSubscribers: is_on_vacation = 0 OR (is_on_vacation = 1 AND
\* vacation_until < date('now', 'localtime')), as the set of
\* {user_id, timezone} the trigger reads.
IsActiveRow(row, t) ==
  \/ ~row.is_on_vacation
  \/ (row.vacation_until # NoDate /\ row.vacation_until < Day(t))

getActiveSubscribers(t) ==
  {[user_id |-> u, timezone |-> subscriptions[u].timezone] :
     u \in {v \in DOMAIN subscriptions : IsActiveRow(subscriptions[v], t)}}

(***************************************************************************)
(* The recurring job of scheduleStandups and its firing.                   *)
(***************************************************************************)
\* cron `${minute} ${hour} * * 1-5`
CronMatches(job, t) ==
  /\ Weekday(Day(t))
  /\ MinuteOfDay(t) = TimeOfDay(job.hour, job.minute)

\* The next minute at which a job is due or the run reads the clock.
NextOccurrence(c) ==
  now + ((c + MinutesPerDay - MinuteOfDay(now) - 1) % MinutesPerDay) + 1
Min(S) == CHOOSE x \in S : \A y \in S : x <= y
NextStop ==
  Min({NextOccurrence(c) : c \in samples}
      \cup {NextOccurrence(TimeOfDay(cronJobs[i].hour, cronJobs[i].minute)) :
              i \in 1..Len(cronJobs)}
      \cup {lateJobs[i] : i \in 1..Len(lateJobs)}
      \cup {horizon + 1})

NoRuns == [done |-> 0, rejected |-> FALSE]

\* The clock reaches the next minute.  Every live recurring job whose cron
\* expression matches it fires: its callback runs to
\* await db.getActiveSubscribers().  Every one-shot job whose date it is
\* fires: its callback runs to await db.cleanupOldLateReminders().  The
\* firings of a minute end within that minute.
AdvanceClock ==
  /\ ticks = <<>>
  /\ lateChecks = <<>>
  /\ NextStop <= horizon
  /\ now' = NextStop
  /\ LET due == SelectSeq(cronJobs, LAMBDA j : CronMatches(j, NextStop))
     IN ticks' = [i \in 1..Len(due) |->
                    [pc |-> "getActiveSubscribers", hour |-> due[i].hour,
                     minute |-> due[i].minute]]
  /\ LET dueLate == SelectSeq(lateJobs, LAMBDA d : d = NextStop)
     IN lateChecks' = [i \in 1..Len(dueLate) |-> [pc |-> "cleanup"]]
  /\ lateJobs' = SelectSeq(lateJobs, LAMBDA d : d # NextStop)
  /\ opened' = {}
  /\ tickFailed' = FALSE
  /\ lateRuns' = NoRuns
  /\ UNCHANGED <<sessionVars, dbVars, cronJobs, standupJob, jobsCreated,
                 reschedules, tasks, lateSent, pendingStart, utcOffset, hourCycle,
                 horizon, actors, samples, eventBudget, members, lastReply,
                 countVars, nEvents>>

RemoveAt(seq, i) == SubSeq(seq, 1, i - 1) \o SubSeq(seq, i + 1, Len(seq))

\* await db.getActiveSubscribers() of the job's callback: a rejection is
\* caught and logged, and the firing ends.
TickGetActiveSubscribers ==
  \E i \in 1..Len(ticks) :
    /\ ticks[i].pc = "getActiveSubscribers"
    /\ \E ok \in BOOLEAN :
         IF ok
         THEN /\ ticks' = [ticks EXCEPT ![i] =
                             [pc |-> "scheduleLateReminders", hour |-> @.hour,
                              minute |-> @.minute,
                              subscribers |-> getActiveSubscribers(now)]]
              /\ UNCHANGED tickFailed
         ELSE /\ ticks' = RemoveAt(ticks, i)
              /\ tickFailed' = TRUE
    /\ UNCHANGED <<sessionVars, dbVars, jobVars, tasks, opened, lateVars,
                   pendingStart, envVars, members, lastReply, countVars, nEvents>>

\* scheduleLateReminders(hour, minute), from the settings it has read:
\* the one-shot job at today's hour:minute plus the configured hours, if
\* late reminders are enabled and that date is in the future.
LateReminderTime(hour, minute, t) ==
  Day(t) * MinutesPerDay + TimeOfDay(hour, minute)
    + settings.late_reminder_hours * MinutesPerHour

\* A check installed whatever the enabled flag says.
scheduleLateRemindersAlways(hour, minute, ok) ==
  IF ok /\ LateReminderTime(hour, minute, now) > now
  THEN Append(lateJobs, LateReminderTime(hour, minute, now))
  ELSE lateJobs

\* settings = await db.getLateReminderSettings(); nothing is scheduled if
\* !settings.enabled or if the time of the check is not in the future.
scheduleLateReminders(hour, minute, ok) ==
  IF ok /\ settings.late_reminder_enabled
        /\ LateReminderTime(hour, minute, now) > now
  THEN Append(lateJobs, LateReminderTime(hour, minute, now))
  ELSE lateJobs

\* The subscribers of the snapshot whose local time is the job's hour:minute.
Matched(tick, t) ==
  {sub.user_id : sub \in
     {x \in tick.subscribers :
        UserTime(IF x.timezone = None THEN DefaultTimezone ELSE x.timezone, t)
          = [hour |-> tick.hour, minute |-> tick.minute]}}

\* await scheduleLateReminders(hour, minute) of the job's callback, then
\* the loop over the subscribers: startUserStandup for each one whose local
\* time matches (the "time for your standup" message of sendReminder is not
\* tracked).
TickScheduleAndStart ==
  \E i \in 1..Len(ticks) :
    /\ ticks[i].pc = "scheduleLateReminders"
    /\ \E ok \in BOOLEAN :
         lateJobs' = scheduleLateReminders(ticks[i].hour, ticks[i].minute, ok)
    /\ pendingStart' = [u \in Users |->
                          IF u \in Matched(ticks[i], now)
                          THEN startUserStandup(pendingStart, u)[u]
                          ELSE pendingStart[u]]
    /\ opened' = opened \cup Matched(ticks[i], now)
    /\ ticks' = RemoveAt(ticks, i)
    /\ UNCHANGED <<sessionVars, dbVars, cronJobs, standupJob, jobsCreated,
                   reschedules, tasks, tickFailed, lateVars, envVars, members,
                   lastReply, countVars, nEvents>>

\* An actor joins or leaves the channel (or the Telegram calls of
\* isChannelMember start or stop failing for that user).
MembershipChanges ==
  /\ \E u \in actors :
       members' = IF u \in members THEN members \ {u} ELSE members \cup {u}
  /\ UNCHANGED <<sessionVars, dbVars, jobVars, tasks, tickVars, lateVars,
                 pendingStart, envVars, lastReply, countVars, nEvents>>

(***************************************************************************)
(* /set_time HH:mm (administrators): db.setStandupTime, then               *)
(* scheduleStandups(), which the handler does not await.                   *)
(***************************************************************************)
\* process.env.ADMIN_USERNAMES
AdminUsernames == {"ann"}

\* db.isAdmin(userId): the stored username of the subscriber is one of the
\* administrators' usernames.
isAdmin(u) == Has(subscriptions, u) /\ subscriptions[u].username \in AdminUsernames

\* The times an administrator asks for: the current one, and one the
\* validation refuses.
SetTimeInputs == {[hour |-> DefaultHour, minute |-> DefaultMinute],
                  [hour |-> 24, minute |-> DefaultMinute]}

\* hour < 0 || hour > 23 || minute < 0 || minute > 59 is refused
ValidTime(hour, minute) == ~(hour < 0 \/ hour > 23 \/ minute < 0 \/ minute > 59)

\* More times: the last minute of the day, and a minute the validation
\* refuses.
SetTimeOtherInputs == {[hour |-> 23, minute |-> 59],
                       [hour |-> DefaultHour, minute |-> 60]}

\* The catch answering as the validation does.
SetTimeErrorAsRefusal == "invalidTime"

\* The catch of the handler: "there was an error setting the standup time"
SetTimeError == "errorSetTime"

ReceiveSetTime ==
  \E u \in actors, time \in SetTimeInputs :
    Receive([kind |-> "setTime", user |-> u, pc |-> "guard",
             hour |-> time.hour, minute |-> time.minute, wrote |-> FALSE])

ReceiveSetTimeOther ==
  \E u \in actors, time \in SetTimeOtherInputs :
    Receive([kind |-> "setTime", user |-> u, pc |-> "guard",
             hour |-> time.hour, minute |-> time.minute, wrote |-> FALSE])

SetTimeGuard(s) ==
  LET t == tasks[s]
      u == t.user
  IN /\ t.kind = "setTime" /\ t.pc = "guard"
     /\   IF ~isChannelMember(u)
          THEN /\ Reply(u, "notMember")
               /\ tasks' = [tasks EXCEPT ![s] = Idle]
          ELSE /\ tasks' = [tasks EXCEPT ![s].pc = "isAdmin"]
               /\ UNCHANGED lastReply
     /\ UNCHANGED <<sessionVars, dbVars, jobVars, tickVars, lateVars, pendingStart,
                    envVars, members, countVars, nEvents>>

\* await db.isAdmin(userId), then the parse and the validation of the time.
SetTimeIsAdmin(s) ==
  LET t == tasks[s]
      u == t.user
  IN /\ t.kind = "setTime" /\ t.pc = "isAdmin"
     /\ \E ok \in BOOLEAN :
          IF ~ok
          THEN Reply(u, SetTimeError) /\ tasks' = [tasks EXCEPT ![s] = Idle]
          ELSE IF ~isAdmin(u)
          THEN Reply(u, "adminOnly") /\ tasks' = [tasks EXCEPT ![s] = Idle]
          ELSE IF ~ValidTime(t.hour, t.minute)
          THEN Reply(u, "invalidTime") /\ tasks' = [tasks EXCEPT ![s] = Idle]
          ELSE /\ tasks' = [tasks EXCEPT ![s].pc = "updateHour"]
               /\ UNCHANGED lastReply
     /\ UNCHANGED <<sessionVars, dbVars, jobVars, tickVars, lateVars, pendingStart,
                    envVars, members, countVars, nEvents>>

\* db.setStandupTime: UPDATE settings ... 'standup_hour'
SetTimeUpdateHour(s) ==
  LET t == tasks[s]
      u == t.user
  IN /\ t.kind = "setTime" /\ t.pc = "updateHour"
     /\ \E ok \in BOOLEAN :
          IF ok
          THEN /\ settings' = [settings EXCEPT !.standup_hour = t.hour]
               /\ tasks' = [tasks EXCEPT ![s].pc = "updateMinute", ![s].wrote = TRUE]
               /\ UNCHANGED lastReply
          ELSE /\ Reply(u, SetTimeError)
               /\ tasks' = [tasks EXCEPT ![s] = Idle]
               /\ UNCHANGED settings
     /\ UNCHANGED <<sessionVars, subscriptions, standups, lateReminders, jobVars,
                    tickVars, lateVars, pendingStart, envVars, members, countVars,
                    nEvents>>

\* global.standupJob.cancel()
Cancel(jobs, id) == SelectSeq(jobs, LAMBDA j : j.id # id)

\* db.setStandupTime: UPDATE settings ... 'standup_minute'; then
\* scheduleStandups() cancels global.standupJob and runs to
\* await db.getStandupTime(), and the handler confirms the new time.
SetTimeUpdateMinute(s) ==
  LET t == tasks[s]
      u == t.user
  IN /\ t.kind = "setTime" /\ t.pc = "updateMinute"
     /\ tasks' = [tasks EXCEPT ![s] = Idle]
     /\ \E ok \in BOOLEAN :
          IF ok
          THEN /\ settings' = [settings EXCEPT !.standup_minute = t.minute]
               /\ cronJobs' = Cancel(cronJobs, standupJob)
               /\ reschedules' = reschedules + 1
               /\ Reply(u, "timeSet")
          ELSE /\ Reply(u, SetTimeError)
               /\ UNCHANGED <<settings, cronJobs, reschedules>>
     /\ UNCHANGED <<sessionVars, subscriptions, standups, lateReminders, standupJob,
                    jobsCreated, lateJobs, tickVars, lateVars, pendingStart, envVars,
                    members, countVars, nEvents>>

\* The rest of scheduleStandups after await db.getStandupTime(): the new
\* recurring job, kept in global.standupJob.  Nobody handles a rejection.
RescheduleResolve ==
  /\ reschedules > 0
  /\ reschedules' = reschedules - 1
  /\ \E ok \in BOOLEAN :
       IF ok
       THEN /\ cronJobs' = Append(cronJobs, [id |-> jobsCreated + 1,
                                             hour |-> settings.standup_hour,
                                             minute |-> settings.standup_minute])
            /\ standupJob' = jobsCreated + 1
            /\ jobsCreated' = jobsCreated + 1
       ELSE UNCHANGED <<cronJobs, standupJob, jobsCreated>>
  /\ UNCHANGED <<sessionVars, dbVars, lateJobs, tasks, tickVars, lateVars,
                 pendingStart, envVars, members, lastReply, countVars, nEvents>>

(***************************************************************************)
(* The other commands that write: /late_reminder on|off and                *)
(* /late_reminder_hours N (administrators), /vacation dd/mm/yyyy,          *)
(* /timezone Region/City and /back.  All but /back run under commandGuard. *)
(***************************************************************************)
\* The handlers of the commands that start with db.isAdmin, and of those
\* that start with db.isSubscribed.
FirstStep(kind) ==
  IF kind \in {"lateReminder", "lateHours"} THEN "isAdmin" ELSE "isSubscribed"

\* commandGuard(msg, handler) of /late_reminder, /late_reminder_hours,
\* /vacation and /timezone.
CommandGuard(s) ==
  LET t == tasks[s]
      u == t.user
  IN /\ t.kind \in {"lateReminder", "lateHours", "vacation", "timezone"}
     /\ t.pc = "guard"
     /\   IF ~isChannelMember(u)
          THEN /\ Reply(u, "notMember")
               /\ tasks' = [tasks EXCEPT ![s] = Idle]
          ELSE /\ tasks' = [tasks EXCEPT ![s].pc = FirstStep(t.kind)]
               /\ UNCHANGED lastReply
     /\ UNCHANGED <<sessionVars, dbVars, jobVars, tickVars, lateVars, pendingStart,
                    envVars, members, countVars, nEvents>>

\* A handler step that reads the database or ends: nothing is written.
OnlyReplies ==
  UNCHANGED <<sessionVars, dbVars, jobVars, tickVars, lateVars, pendingStart,
              envVars, members, countVars, nEvents>>

\* A write to the settings that also empties the Map of the sessions.
OnlyWritesClearingSessions ==
  /\ userStates' = EmptyMap
  /\ UNCHANGED <<standupResponses, standups, lateReminders, jobVars, tickVars,
                 lateVars, pendingStart, envVars, members, countVars, nEvents>>

\* A handler step that writes one table of the database.
OnlyWrites ==
  UNCHANGED <<sessionVars, standups, lateReminders, jobVars, tickVars, lateVars,
              pendingStart, envVars, members, countVars, nEvents>>

ReceiveLateReminder ==
  \E u \in actors, enabled \in BOOLEAN :
    Receive([kind |-> "lateReminder", user |-> u, pc |-> "guard",
             enabled |-> enabled, wrote |-> FALSE])

\* await db.isAdmin(userId)
LateReminderIsAdmin(s) ==
  LET t == tasks[s]
      u == t.user
  IN /\ t.kind = "lateReminder" /\ t.pc = "isAdmin"
     /\ \E ok \in BOOLEAN :
          IF ~ok
          THEN Reply(u, "errorLateReminder") /\ tasks' = [tasks EXCEPT ![s] = Idle]
          ELSE IF ~isAdmin(u)
          THEN Reply(u, "adminOnly") /\ tasks' = [tasks EXCEPT ![s] = Idle]
          ELSE /\ tasks' = [tasks EXCEPT ![s].pc = "set"]
               /\ UNCHANGED lastReply
     /\ OnlyReplies

\* await db.setLateReminderEnabled(enabled)
LateReminderSet(s) ==
  LET t == tasks[s]
      u == t.user
  IN /\ t.kind = "lateReminder" /\ t.pc = "set"
     /\ \E ok \in BOOLEAN :
          IF ok
          THEN /\ settings' = [settings EXCEPT !.late_reminder_enabled = t.enabled]
               /\ tasks' = [tasks EXCEPT ![s].pc = "get", ![s].wrote = TRUE]
               /\ UNCHANGED lastReply
          ELSE /\ Reply(u, "errorLateReminder")
               /\ tasks' = [tasks EXCEPT ![s] = Idle]
               /\ UNCHANGED settings
     /\ UNCHANGED subscriptions
     /\ OnlyWrites

\* await db.getLateReminderSettings(), then the confirmation.
LateReminderGet(s) ==
  LET t == tasks[s]
      u == t.user
  IN /\ t.kind \in {"lateReminder", "lateHours"} /\ t.pc = "get"
     /\ tasks' = [tasks EXCEPT ![s] = Idle]
     /\ \E ok \in BOOLEAN :
          IF ok
          THEN Reply(u, IF t.kind = "lateReminder" THEN "lateReminderSet"
                        ELSE "lateHoursSet")
          ELSE Reply(u, "errorLateReminder")
     /\ OnlyReplies

\* parseInt(match[1] || match[2], 10) of the one or two digits the pattern
\* takes: the smallest and the largest delay, one less and one more.
LateHoursInputs == {0, 1, 12, 13}

\* A validation that lets a delay of no hours through.
ValidHoursFromZero(hours) == ~(hours < 0 \/ hours > 12)

\* hours < 1 || hours > 12 is refused
ValidHours(hours) == ~(hours < 1 \/ hours > 12)

ReceiveLateHours ==
  \E u \in actors, hours \in LateHoursInputs :
    Receive([kind |-> "lateHours", user |-> u, pc |-> "guard", hours |-> hours,
             wrote |-> FALSE])

\* await db.isAdmin(userId), then the validation of the hours.
LateHoursIsAdmin(s) ==
  LET t == tasks[s]
      u == t.user
  IN /\ t.kind = "lateHours" /\ t.pc = "isAdmin"
     /\ \E ok \in BOOLEAN :
          IF ~ok
          THEN Reply(u, "errorLateReminder") /\ tasks' = [tasks EXCEPT ![s] = Idle]
          ELSE IF ~isAdmin(u)
          THEN Reply(u, "adminOnly") /\ tasks' = [tasks EXCEPT ![s] = Idle]
          ELSE IF ~ValidHours(t.hours)
          THEN Reply(u, "invalidHours") /\ tasks' = [tasks EXCEPT ![s] = Idle]
          ELSE /\ tasks' = [tasks EXCEPT ![s].pc = "set"]
               /\ UNCHANGED lastReply
     /\ OnlyReplies

\* await db.setLateReminderHours(hours)
LateHoursSet(s) ==
  LET t == tasks[s]
      u == t.user
  IN /\ t.kind = "lateHours" /\ t.pc = "set"
     /\ \E ok \in BOOLEAN :
          IF ok
          THEN /\ settings' = [settings EXCEPT !.late_reminder_hours = t.hours]
               /\ tasks' = [tasks EXCEPT ![s].pc = "get", ![s].wrote = TRUE]
               /\ UNCHANGED lastReply
          ELSE /\ Reply(u, "errorLateReminder")
               /\ tasks' = [tasks EXCEPT ![s] = Idle]
               /\ UNCHANGED settings
     /\ UNCHANGED subscriptions
     /\ OnlyWrites

\* The day the clock shows is the 3rd of its month, a month of 28 days:
\* the days typed in dd/mm/yyyy are the 2nd, the 3rd, and the 30th, a day
\* the month does not have.
VacationInputs == {2, 3, 30}

\* new Date(year, month - 1, day), as a day: the first of the month plus
\* day - 1 days, whatever the length of the month.
DateOf(day, today) == today - 3 + day

\* endDate.toISOString().split('T')[0]: the UTC date of the local midnight
ToISODate(day) == (day * MinutesPerDay - utcOffset) \div MinutesPerDay

ReceiveVacation ==
  \E u \in actors, day \in VacationInputs :
    Receive([kind |-> "vacation", user |-> u, pc |-> "guard",
             endDate |-> DateOf(day, Day(now)), wrote |-> FALSE])

\* await db.isSubscribed(userId), then the parse of the date and the
\* comparison with today's midnight.  A date made of digits is never NaN.
VacationIsSubscribed(s) ==
  LET t == tasks[s]
      u == t.user
  IN /\ t.kind = "vacation" /\ t.pc = "isSubscribed"
     /\ \E ok \in BOOLEAN :
          IF ~ok
          THEN Reply(u, "errorVacation") /\ tasks' = [tasks EXCEPT ![s] = Idle]
          ELSE IF ~Has(subscriptions, u)
          THEN Reply(u, "needSubscribe") /\ tasks' = [tasks EXCEPT ![s] = Idle]
          ELSE IF t.endDate < Day(now)
          THEN Reply(u, "pastDate") /\ tasks' = [tasks EXCEPT ![s] = Idle]
          ELSE /\ tasks' = [tasks EXCEPT ![s].pc = "set"]
               /\ UNCHANGED lastReply
     /\ OnlyReplies

\* db.setVacationMode: UPDATE subscriptions SET is_on_vacation = 1,
\* vacation_until = ? WHERE user_id = ?
setVacationMode(rows, u, endDate) ==
  IF Has(rows, u)
  THEN [rows EXCEPT ![u].is_on_vacation = TRUE, ![u].vacation_until = endDate]
  ELSE rows

VacationSet(s) ==
  LET t == tasks[s]
      u == t.user
  IN /\ t.kind = "vacation" /\ t.pc = "set"
     /\ tasks' = [tasks EXCEPT ![s] = Idle]
     /\ \E ok \in BOOLEAN :
          IF ok
          THEN /\ subscriptions' = setVacationMode(subscriptions, u, ToISODate(t.endDate))
               /\ Reply(u, "vacationSet")
          ELSE /\ Reply(u, "errorVacation")
               /\ UNCHANGED subscriptions
     /\ UNCHANGED settings
     /\ OnlyWrites

\* The zones typed after /timezone: one Intl knows and one it does not.
TimezoneInputs == {"America/New_York", "Mars/Phobos"}

\* Intl.DateTimeFormat(undefined, { timeZone: timezone }) does not throw
ValidTimezone(tz) == tz \in Timezones

ReceiveTimezone ==
  \E u \in actors, tz \in TimezoneInputs :
    Receive([kind |-> "timezone", user |-> u, pc |-> "guard", timezone |-> tz,
             wrote |-> FALSE])

\* await db.isSubscribed(userId), then the validation of the zone.
TimezoneIsSubscribed(s) ==
  LET t == tasks[s]
      u == t.user
  IN /\ t.kind = "timezone" /\ t.pc = "isSubscribed"
     /\ \E ok \in BOOLEAN :
          IF ~ok
          THEN Reply(u, "errorTimezone") /\ tasks' = [tasks EXCEPT ![s] = Idle]
          ELSE IF ~Has(subscriptions, u)
          THEN Reply(u, "needSubscribe") /\ tasks' = [tasks EXCEPT ![s] = Idle]
          ELSE IF ~ValidTimezone(t.timezone)
          THEN Reply(u, "invalidTimezone") /\ tasks' = [tasks EXCEPT ![s] = Idle]
          ELSE /\ tasks' = [tasks EXCEPT ![s].pc = "set"]
               /\ UNCHANGED lastReply
     /\ OnlyReplies

\* db.setUserTimezone: UPDATE subscriptions SET timezone = ? WHERE user_id = ?
setUserTimezone(rows, u, tz) ==
  IF Has(rows, u) THEN [rows EXCEPT ![u].timezone = tz] ELSE rows

TimezoneSet(s) ==
  LET t == tasks[s]
      u == t.user
  IN /\ t.kind = "timezone" /\ t.pc = "set"
     /\ tasks' = [tasks EXCEPT ![s] = Idle]
     /\ \E ok \in BOOLEAN :
          IF ok
          THEN /\ subscriptions' = setUserTimezone(subscriptions, u, t.timezone)
               /\ Reply(u, "timezoneSet")
          ELSE /\ Reply(u, "errorTimezone")
               /\ UNCHANGED subscriptions
     /\ UNCHANGED settings
     /\ OnlyWrites

\* /back is registered without commandGuard: the handler starts at
\* await db.getVacationStatus(userId).
ReceiveBack ==
  \E u \in actors :
    Receive([kind |-> "back", user |-> u, pc |-> "getStatus", wrote |-> FALSE])

\* !status || !status.is_on_vacation
BackGetStatus(s) ==
  LET t == tasks[s]
      u == t.user
  IN /\ t.kind = "back" /\ t.pc = "getStatus"
     /\ \E ok \in BOOLEAN :
          IF ~ok
          THEN Reply(u, "errorBack") /\ tasks' = [tasks EXCEPT ![s] = Idle]
          ELSE IF ~Has(subscriptions, u) \/ ~subscriptions[u].is_on_vacation
          THEN Reply(u, "notOnVacation") /\ tasks' = [tasks EXCEPT ![s] = Idle]
          ELSE /\ tasks' = [tasks EXCEPT ![s].pc = "disable"]
               /\ UNCHANGED lastReply
     /\ OnlyReplies

\* db.disableVacationMode: UPDATE subscriptions SET is_on_vacation = 0,
\* vacation_until = NULL WHERE user_id = ?
disableVacationMode(rows, u) ==
  IF Has(rows, u)
  THEN [rows EXCEPT ![u].is_on_vacation = FALSE, ![u].vacation_until = NoDate]
  ELSE rows

BackDisable(s) ==
  LET t == tasks[s]
      u == t.user
  IN /\ t.kind = "back" /\ t.pc = "disable"
     /\ tasks' = [tasks EXCEPT ![s] = Idle]
     /\ \E ok \in BOOLEAN :
          IF ok
          THEN /\ subscriptions' = disableVacationMode(subscriptions, u)
               /\ Reply(u, "welcomeBack")
          ELSE /\ Reply(u, "errorBack")
               /\ UNCHANGED subscriptions
     /\ UNCHANGED settings
     /\ OnlyWrites

(***************************************************************************)
(* /subscribe: commandGuard, db.isSubscribed, db.addSubscriber with the    *)
(* name of the sender.                                                     *)
(***************************************************************************)
ReceiveSubscribe ==
  \E u \in actors :
    Receive([kind |-> "subscribe", user |-> u, pc |-> "guard", wrote |-> FALSE])

SubscribeGuard(s) ==
  LET t == tasks[s]
      u == t.user
  IN /\ t.kind = "subscribe" /\ t.pc = "guard"
     /\   IF ~isChannelMember(u)
          THEN /\ Reply(u, "notMember")
               /\ tasks' = [tasks EXCEPT ![s] = Idle]
          ELSE /\ tasks' = [tasks EXCEPT ![s].pc = "isSubscribed"]
               /\ UNCHANGED lastReply
     /\ OnlyReplies

\* await db.isSubscribed(userId)
SubscribeIsSubscribed(s) ==
  LET t == tasks[s]
      u == t.user
  IN /\ t.kind = "subscribe" /\ t.pc = "isSubscribed"
     /\ \E ok \in BOOLEAN :
          IF ~ok
          THEN Reply(u, "errorSubscribe") /\ tasks' = [tasks EXCEPT ![s] = Idle]
          ELSE IF Has(subscriptions, u)
          THEN Reply(u, "alreadySubscribed") /\ tasks' = [tasks EXCEPT ![s] = Idle]
          ELSE /\ tasks' = [tasks EXCEPT ![s].pc = "add"]
               /\ UNCHANGED lastReply
     /\ OnlyReplies

\* INSERT OR REPLACE INTO subscriptions (user_id, username) VALUES (?, ?)
addSubscriber(rows, u, username) == Set(rows, u, NewSubscription(username))

\* await db.addSubscriber(userId, username), with
\* username = msg.from.username || msg.from.first_name
SubscribeAdd(s) ==
  LET t == tasks[s]
      u == t.user
  IN /\ t.kind = "subscribe" /\ t.pc = "add"
     /\ tasks' = [tasks EXCEPT ![s] = Idle]
     /\ \E ok \in BOOLEAN :
          IF ok
          THEN /\ subscriptions' = addSubscriber(subscriptions, u, FromName(u))
               /\ Reply(u, "subscribed")
          ELSE /\ Reply(u, "errorSubscribe")
               /\ UNCHANGED subscriptions
     /\ UNCHANGED settings
     /\ OnlyWrites

(***************************************************************************)
(* The callback of the one-shot job of scheduleLateReminders: the check    *)
(* for missing standups.  It has no try/catch: a rejected await ends it.   *)
(***************************************************************************)
NoUser == 0

\* DELETE FROM late_reminders WHERE date(sent_at, 'localtime') <
\* date('now', 'localtime'); sent_at is kept here in local time.
cleanupOldLateReminders(rows, t) ==
  SelectSeq(rows, LAMBDA r : ~(Day(r.sent_at) < Day(t)))

\* SELECT COUNT(*) ... WHERE user_id = ? AND date(sent_at, 'localtime') =
\* date('now', 'localtime'); count > 0
hasReceivedLateReminderToday(u, t) ==
  \E i \in DOMAIN lateReminders :
    lateReminders[i].user_id = u /\ Day(lateReminders[i].sent_at) = Day(t)

\* INSERT INTO late_reminders (user_id) VALUES (?)
recordLateReminder(rows, u, t) == Append(rows, [user_id |-> u, sent_at |-> t])

\* SELECT * FROM subscriptions WHERE username = ?, first row: the table is
\* scanned in the order of its INTEGER PRIMARY KEY, user_id.
getSubscriberByUsername(name) ==
  LET S == {u \in DOMAIN subscriptions : subscriptions[u].username = name}
  IN IF S = {} THEN NoUser ELSE Min(S)

\* ORDER BY username (BINARY collation), rows of equal username by key.
UsernameRank(name) ==
  IF name = "Ann" THEN 0 ELSE IF name = "Bob" THEN 1
  ELSE IF name = "ann" THEN 2 ELSE 3
RECURSIVE OrderByUsername(_)
OrderByUsername(S) ==
  IF S = {} THEN <<>>
  ELSE LET first == CHOOSE u \in S : \A v \in S \ {u} :
                      \/ UsernameRank(subscriptions[u].username)
                           < UsernameRank(subscriptions[v].username)
                      \/ /\ UsernameRank(subscriptions[u].username)
                              = UsernameRank(subscriptions[v].username)
                         /\ u < v
       IN <<first>> \o OrderByUsername(S \ {first})

\* getStandupStatus, first query: SELECT * FROM subscriptions ORDER BY username
StatusSubscribers ==
  LET order == OrderByUsername(DOMAIN subscriptions)
  IN [i \in 1..Len(order) |->
        [user_id |-> order[i], username |-> subscriptions[order[i]].username,
         isOnVacation |-> subscriptions[order[i]].is_on_vacation]]

\* getStandupStatus, second query: the user_ids of the rows of standups
\* with date(submitted_at, 'localtime') = date('now', 'localtime');
\* submitted_at already holds local time and is shifted once more.
TodaySubmitters(t) ==
  {standups[i].user_id : i \in
     {j \in DOMAIN standups : Day(standups[j].submitted_at + utcOffset) = Day(t)}}

\* status.filter((s) => !s.hasSubmitted && !s.isOnVacation), as the
\* usernames the loop reads
Missing(subs, submitted) ==
  LET keep == SelectSeq(subs, LAMBDA r : r.user_id \notin submitted /\ ~r.isOnVacation)
  IN [i \in 1..Len(keep) |-> keep[i].username]

\* The loop goes on with the users left, or the check ends.
LateContinue(checks, i, missing) ==
  IF missing = <<>> THEN RemoveAt(checks, i)
  ELSE [checks EXCEPT ![i] = [pc |-> "getSubscriber", missing |-> missing]]

\* What a step of a check adds to lateRuns: a rejected await, or a check
\* that ran to the end of its loop.
LateOutcome(ok) ==
  lateRuns' = IF ~ok THEN [lateRuns EXCEPT !.rejected = TRUE]
              ELSE IF Len(lateChecks') < Len(lateChecks)
              THEN [lateRuns EXCEPT !.done = @ + 1]
              ELSE lateRuns

\* await db.cleanupOldLateReminders()
LateCleanup ==
  \E i \in 1..Len(lateChecks) :
    /\ lateChecks[i].pc = "cleanup"
    /\ \E ok \in BOOLEAN :
         /\ IF ok
            THEN /\ lateReminders' = cleanupOldLateReminders(lateReminders, now)
                 /\ lateChecks' = [lateChecks EXCEPT ![i] = [pc |-> "subscribers"]]
            ELSE /\ lateChecks' = RemoveAt(lateChecks, i)
                 /\ UNCHANGED lateReminders
         /\ LateOutcome(ok)
    /\ UNCHANGED <<sessionVars, subscriptions, standups, settings, jobVars, tasks,
                   tickVars, lateSent, pendingStart, envVars, members, lastReply,
                   countVars, nEvents>>

\* getStandupStatus: await dbAll('SELECT * FROM subscriptions ...')
LateStatusSubscribers ==
  \E i \in 1..Len(lateChecks) :
    /\ lateChecks[i].pc = "subscribers"
    /\ \E ok \in BOOLEAN :
         /\ lateChecks' = IF ok
                          THEN [lateChecks EXCEPT ![i] =
                                  [pc |-> "todayStandups", subs |-> StatusSubscribers]]
                          ELSE RemoveAt(lateChecks, i)
         /\ LateOutcome(ok)
    /\ UNCHANGED <<sessionVars, dbVars, jobVars, tasks, tickVars, lateSent,
                   pendingStart, envVars, members, lastReply, countVars, nEvents>>

\* getStandupStatus: await dbAll('SELECT * FROM standups ...'), then the
\* filter and the start of the loop
LateStatusStandups ==
  \E i \in 1..Len(lateChecks) :
    /\ lateChecks[i].pc = "todayStandups"
    /\ \E ok \in BOOLEAN :
         /\ lateChecks' = IF ok
                          THEN LateContinue(lateChecks, i,
                                 Missing(lateChecks[i].subs, TodaySubmitters(now)))
                          ELSE RemoveAt(lateChecks, i)
         /\ LateOutcome(ok)
    /\ UNCHANGED <<sessionVars, dbVars, jobVars, tasks, tickVars, lateSent,
                   pendingStart, envVars, members, lastReply, countVars, nEvents>>

\* await db.getSubscriberByUsername(user.username); if (subscriber)
LateGetSubscriber ==
  \E i \in 1..Len(lateChecks) :
    LET c == lateChecks[i]
    IN /\ c.pc = "getSubscriber"
       /\ \E ok \in BOOLEAN :
            /\ lateChecks' =
                 IF ~ok THEN RemoveAt(lateChecks, i)
                 ELSE IF getSubscriberByUsername(Head(c.missing)) = NoUser
                 THEN LateContinue(lateChecks, i, Tail(c.missing))
                 ELSE [lateChecks EXCEPT ![i] =
                         [pc |-> "hasReceived", missing |-> c.missing,
                          user_id |-> getSubscriberByUsername(Head(c.missing))]]
            /\ LateOutcome(ok)
       /\ UNCHANGED <<sessionVars, dbVars, jobVars, tasks, tickVars, lateSent,
                      pendingStart, envVars, members, lastReply, countVars, nEvents>>

\* await db.hasReceivedLateReminderToday(subscriber.user_id); if it has
\* not, sendReminder runs to await bot.getChat(userId)
LateHasReceived ==
  \E i \in 1..Len(lateChecks) :
    LET c == lateChecks[i]
    IN /\ c.pc = "hasReceived"
       /\ \E ok \in BOOLEAN :
            /\ lateChecks' =
                 IF ~ok THEN RemoveAt(lateChecks, i)
                 ELSE IF hasReceivedLateReminderToday(c.user_id, now)
                 THEN LateContinue(lateChecks, i, Tail(c.missing))
                 ELSE [lateChecks EXCEPT ![i].pc = "getChat"]
            /\ LateOutcome(ok)
       /\ UNCHANGED <<sessionVars, dbVars, jobVars, tasks, tickVars, lateSent,
                      pendingStart, envVars, members, lastReply, countVars, nEvents>>

\* The row of standups a user submitted on the local calendar day of t.
HasResponseToday(u, t) ==
  \E i \in DOMAIN standups :
    standups[i].user_id = u /\ Day(standups[i].submitted_at) = Day(t)

\* What holds of user u at the moment a late reminder is sent to u.
SendFacts(u) ==
  [day |-> Day(now),
   subscribed |-> Has(subscriptions, u),
   onVacation |-> Has(subscriptions, u) /\ ~IsActiveRow(subscriptions[u], now),
   hasResponse |-> HasResponseToday(u, now),
   hasRecord |-> hasReceivedLateReminderToday(u, now)]

\* sendReminder(userId, true): await bot.getChat(userId), then the message;
\* a rejection is caught and logged inside sendReminder.  The check goes on
\* to await db.recordLateReminder in both cases.
LateSendReminder ==
  \E i \in 1..Len(lateChecks) :
    LET c == lateChecks[i]
    IN /\ c.pc = "getChat"
       /\ lateChecks' = [lateChecks EXCEPT ![i].pc = "record"]
       /\ \E ok \in BOOLEAN :
            /\ IF ok
               THEN /\ Reply(c.user_id, "lateReminder")
                    /\ lateSent' = [lateSent EXCEPT ![c.user_id] =
                                      Append(@, SendFacts(c.user_id))]
               ELSE UNCHANGED <<lastReply, lateSent>>
            /\ LateOutcome(ok)
       /\ UNCHANGED <<sessionVars, dbVars, jobVars, tasks, tickVars, pendingStart,
                      envVars, members, countVars, nEvents>>

\* await db.recordLateReminder(subscriber.user_id), then the next user
LateRecord ==
  \E i \in 1..Len(lateChecks) :
    LET c == lateChecks[i]
    IN /\ c.pc = "record"
       /\ \E ok \in BOOLEAN :
            /\ IF ok
               THEN /\ lateReminders' = recordLateReminder(lateReminders, c.user_id, now)
                    /\ lateChecks' = LateContinue(lateChecks, i, Tail(c.missing))
               ELSE /\ lateChecks' = RemoveAt(lateChecks, i)
                    /\ UNCHANGED lateReminders
            /\ LateOutcome(ok)
       /\ UNCHANGED <<sessionVars, subscriptions, standups, settings, jobVars,
                      tasks, tickVars, lateSent, pendingStart, envVars, members,
                      lastReply, countVars, nEvents>>

(***************************************************************************)
(* The state after initialize(): the tables created (the settings with     *)
(* their defaults unless the database file held others), the recurring job *)
(* installed by scheduleStandups, no session.                              *)
(***************************************************************************)
DefaultSettings ==
  [standup_hour |-> DefaultHour, standup_minute |-> DefaultMinute,
   late_reminder_enabled |-> TRUE, late_reminder_hours |-> DefaultLateHours]

\* The tables and the jobs after startup, with no event received.
InitStores ==
  /\ standups = <<>>
  /\ lateReminders = <<>>
  /\ cronJobs = <<[id |-> 1, hour |-> settings.standup_hour,
                   minute |-> settings.standup_minute]>>
  /\ standupJob = 1
  /\ jobsCreated = 1
  /\ reschedules = 0
  /\ lateJobs = <<>>
  /\ lateChecks = <<>>
  /\ ticks = <<>>
  /\ opened = {}
  /\ tickFailed = FALSE
  /\ lateSent = [u \in Users |-> <<>>]
  /\ lateRuns = NoRuns
  /\ pendingStart = [u \in Users |-> 0]
  /\ lastReply = [u \in Users |-> None]
  /\ nEmitted = [u \in Users |-> 0]
  /\ channel = EmptyMap
  /\ nPersistFailed = [u \in Users |-> 0]
  /\ nEvents = 0

InitProgram ==
  /\ userStates = EmptyMap
  /\ standupResponses = EmptyMap
  /\ tasks = [s \in Slots |-> Idle]
  /\ nCompleted = [u \in Users |-> 0]
  /\ nStarted = [u \in Users |-> 0]
  /\ lastCompletion = EmptyMap
  /\ InitStores

(***************************************************************************)
(* The interview engine around one firing of the weekday trigger: a Monday *)
(* from 08:59 to 09:00, each user subscribed (with the defaults of         *)
(* /subscribe) or not.                                                     *)
(***************************************************************************)
Init ==
  /\ settings = DefaultSettings
  /\ InitProgram
  /\ actors = {1}
  /\ members = Users
  /\ subscriptions \in {[u \in S |-> NewSubscription(FromName(u))] :
                          S \in SUBSET actors}
  /\ now = TimeOfDay(8, 59)
  /\ horizon = TimeOfDay(9, 0)
  /\ samples = {}
  /\ eventBudget = MaxEvents
  /\ utcOffset = 0
  /\ hourCycle = "h23"

Next ==
  \/ ReceiveStandup
  \/ ReceiveMessage
  \/ ReceiveSkip
  \/ \E s \in Slots : StandupGuard(s)
  \/ \E s \in Slots : StandupIsSubscribed(s)
  \/ StartResolve
  \/ \E s \in Slots : MessageGuard(s)
  \/ \E s \in Slots : SkipGuard(s)
  \/ \E s \in Slots : AddStandupDelete(s)
  \/ \E s \in Slots : AddStandupInsert(s)
  \/ MembershipChanges
  \/ AdvanceClock
  \/ TickGetActiveSubscribers
  \/ TickScheduleAndStart

Spec == Init /\ [][Next]_vars

(***************************************************************************)
(* The weekday trigger over a Friday and a Saturday: the clock is read one *)
(* minute before, at and one minute after 09:00 and 14:00; the subscribers *)
(* are in the default zone or in one five hours behind, on vacation (over, *)
(* until the Friday, or until the next week) or not; late reminders are    *)
(* disabled.                                                               *)
(***************************************************************************)
SampleTimes == {TimeOfDay(8, 59), TimeOfDay(9, 0), TimeOfDay(9, 1),
                TimeOfDay(13, 59), TimeOfDay(14, 0), TimeOfDay(14, 1)}
FirstDay == 4
LastDay == 5
VacationRows ==
  {[is_on_vacation |-> FALSE, vacation_until |-> NoDate],
   [is_on_vacation |-> TRUE, vacation_until |-> FirstDay - 1],
   [is_on_vacation |-> TRUE, vacation_until |-> FirstDay],
   [is_on_vacation |-> TRUE, vacation_until |-> LastDay + 2]}
SubscriptionRows(u) ==
  {[username |-> FromName(u), timezone |-> tz,
    is_on_vacation |-> v.is_on_vacation, vacation_until |-> v.vacation_until] :
     tz \in Timezones, v \in VacationRows}

InitClock ==
  /\ settings = [DefaultSettings EXCEPT !.late_reminder_enabled = FALSE]
  /\ InitProgram
  /\ actors = {}
  /\ members = Users
  /\ \E S \in SUBSET Users :
       subscriptions \in [S -> UNION {SubscriptionRows(u) : u \in Users}]
  /\ \A u \in DOMAIN subscriptions : subscriptions[u] \in SubscriptionRows(u)
  /\ now = FirstDay * MinutesPerDay + TimeOfDay(8, 59)
  /\ horizon = LastDay * MinutesPerDay + TimeOfDay(14, 1)
  /\ samples = SampleTimes
  /\ eventBudget = 0
  /\ utcOffset = 0
  /\ hourCycle \in {"h23", "h24"}

NextClock ==
  \/ AdvanceClock
  \/ TickGetActiveSubscribers
  \/ TickScheduleAndStart
  \/ StartResolve

SpecClock == InitClock /\ [][NextClock]_vars

(***************************************************************************)
(* The late-reminder check of one Tuesday, from 08:59 to the date of the   *)
(* one-shot job: user 1 answers the questions and, as an administrator,    *)
(* sets the time of the standup; another user may be back from a vacation  *)
(* that ended the day before, the flag still set.                          *)
(***************************************************************************)
LateDay == 1
BackFromVacation(u) ==
  [NewSubscription(FromName(u)) EXCEPT !.is_on_vacation = TRUE,
                                       !.vacation_until = LateDay - 1]
LateRows(u) ==
  {NewSubscription(FromName(u))}
    \cup (IF u \in actors THEN {} ELSE {BackFromVacation(u)})

InitLate ==
  /\ settings = DefaultSettings
  /\ InitProgram
  /\ actors = {1}
  /\ members = Users
  /\ \E S \in SUBSET Users :
       subscriptions \in [S -> UNION {LateRows(u) : u \in Users}]
  /\ \A u \in DOMAIN subscriptions : subscriptions[u] \in LateRows(u)
  /\ now = LateDay * MinutesPerDay + TimeOfDay(8, 59)
  /\ horizon = LateReminderTime(DefaultHour, DefaultMinute, LateDay * MinutesPerDay)
  /\ samples = {}
  /\ eventBudget = MaxLateEvents
  /\ utcOffset = 0
  /\ hourCycle = "h23"

NextLate ==
  \/ ReceiveMessage
  \/ ReceiveSetTime
  \/ StartResolve
  \/ \E s \in Slots : MessageGuard(s)
  \/ \E s \in Slots : AddStandupDelete(s)
  \/ \E s \in Slots : AddStandupInsert(s)
  \/ \E s \in Slots : SetTimeGuard(s)
  \/ \E s \in Slots : SetTimeIsAdmin(s)
  \/ \E s \in Slots : SetTimeUpdateHour(s)
  \/ \E s \in Slots : SetTimeUpdateMinute(s)
  \/ RescheduleResolve
  \/ AdvanceClock
  \/ TickGetActiveSubscribers
  \/ TickScheduleAndStart
  \/ LateCleanup
  \/ LateStatusSubscribers
  \/ LateStatusStandups
  \/ LateGetSubscriber
  \/ LateHasReceived
  \/ LateSendReminder
  \/ LateRecord

SpecLate == InitLate /\ [][NextLate]_vars

(***************************************************************************)
(* formatStandupResponse at the end of a completion: user 1 has given the  *)
(* last answer, by a message or by /skip, and the handler is awaiting the  *)
(* INSERT of db.addStandup.  The answers are a text, a text of white       *)
(* space, no text at all (a message without text) or, where /skip is       *)
(* allowed, the empty string of /skip.                                     *)
(***************************************************************************)
MessageTexts == {"x", Blank, Undef}

CompletedAnswers(kind) ==
  {a \in [1..NumQuestions -> MessageTexts \cup {Skipped}] :
     /\ a[2] \in MessageTexts
     /\ IF kind = "skip" THEN a[3] = Skipped ELSE a[3] \in MessageTexts}

InitFormat ==
  /\ settings = DefaultSettings
  /\ InitStores
  /\ actors = {1}
  /\ members = Users
  /\ subscriptions = [u \in actors |-> NewSubscription(FromName(u))]
  /\ now = TimeOfDay(10, 0)
  /\ horizon = now
  /\ samples = {}
  /\ eventBudget = 0
  /\ utcOffset = 0
  /\ hourCycle = "h23"
  /\ userStates = EmptyMap
  /\ nCompleted = [u \in Users |-> IF u \in actors THEN 1 ELSE 0]
  /\ nStarted = [u \in Users |-> IF u \in actors THEN 1 ELSE 0]
  /\ \E kind \in {"message", "skip"} : \E a \in CompletedAnswers(kind) :
       LET r == [username |-> FromName(1), answers |-> a]
       IN /\ standupResponses = [u \in actors |-> r]
          /\ lastCompletion = [u \in actors |-> a]
          /\ tasks = [s \in Slots |->
                        IF s = 1
                        THEN [kind |-> kind, user |-> 1, pc |-> "insert",
                              args |-> r, callDay |-> Day(now),
                              response |-> r, shared |-> TRUE]
                        ELSE Idle]

NextFormat == \E s \in Slots : AddStandupInsert(s)

SpecFormat == InitFormat /\ [][NextFormat]_vars

(***************************************************************************)
(* The enabled flag of the late reminders over a Tuesday from 08:59 to the *)
(* time of the check: the flag starts on or off, and the administrator     *)
(* (user 1) turns it on or off at any stop of the clock.                   *)
(***************************************************************************)
MaxToggleEvents == 2

InitToggle ==
  /\ settings \in {DefaultSettings,
                   [DefaultSettings EXCEPT !.late_reminder_enabled = FALSE]}
  /\ InitProgram
  /\ actors = {1}
  /\ members = Users
  /\ subscriptions \in {[u \in S |-> NewSubscription(FromName(u))] :
                          S \in {actors, Users}}
  /\ now = LateDay * MinutesPerDay + TimeOfDay(8, 59)
  /\ horizon = LateReminderTime(DefaultHour, DefaultMinute, LateDay * MinutesPerDay)
  /\ samples = {}
  /\ eventBudget = MaxToggleEvents
  /\ utcOffset = 0
  /\ hourCycle = "h23"

NextToggle ==
  \/ ReceiveLateReminder
  \/ \E s \in Slots : CommandGuard(s)
  \/ \E s \in Slots : LateReminderIsAdmin(s)
  \/ \E s \in Slots : LateReminderSet(s)
  \/ \E s \in Slots : LateReminderGet(s)
  \/ StartResolve
  \/ AdvanceClock
  \/ TickGetActiveSubscribers
  \/ TickScheduleAndStart
  \/ LateCleanup
  \/ LateStatusSubscribers
  \/ LateStatusStandups
  \/ LateGetSubscriber
  \/ LateHasReceived
  \/ LateSendReminder
  \/ LateRecord

SpecToggle == InitToggle /\ [][NextToggle]_vars

(***************************************************************************)
(* The commands and the answers to the first questions, on a Tuesday at   *)
(* 10:00 with the clock at rest: user 1 is in the channel or not, and not  *)
(* subscribed, subscribed, or subscribed and on vacation until the next    *)
(* day.                                                                    *)
(***************************************************************************)
MaxCommandEvents == 3

OnVacation(u, until) ==
  [NewSubscription(FromName(u)) EXCEPT !.is_on_vacation = TRUE,
                                       !.vacation_until = until]

InitCommands ==
  /\ settings = DefaultSettings
  /\ InitProgram
  /\ actors = {1}
  /\ members \in {Users, Users \ actors}
  /\ now = LateDay * MinutesPerDay + TimeOfDay(10, 0)
  /\ subscriptions \in
       {EmptyMap} \cup
       {[u \in actors |-> NewSubscription(FromName(u))],
        [u \in actors |-> OnVacation(u, LateDay + 1)]}
  /\ horizon = now
  /\ samples = {}
  /\ eventBudget = MaxCommandEvents
  /\ utcOffset = 0
  /\ hourCycle = "h23"

NextCommands ==
  \/ ReceiveStandup
  \/ ReceiveSetTimeOther
  \/ ReceiveMessage
  \/ \E s \in Slots : MessageGuard(s)
  \/ ReceiveSetTime
  \/ ReceiveLateReminder
  \/ ReceiveLateHours
  \/ ReceiveVacation
  \/ ReceiveTimezone
  \/ ReceiveBack
  \/ \E s \in Slots : StandupGuard(s)
  \/ \E s \in Slots : StandupIsSubscribed(s)
  \/ StartResolve
  \/ \E s \in Slots : SetTimeGuard(s)
  \/ \E s \in Slots : SetTimeIsAdmin(s)
  \/ \E s \in Slots : SetTimeUpdateHour(s)
  \/ \E s \in Slots : SetTimeUpdateMinute(s)
  \/ RescheduleResolve
  \/ \E s \in Slots : CommandGuard(s)
  \/ \E s \in Slots : LateReminderIsAdmin(s)
  \/ \E s \in Slots : LateReminderSet(s)
  \/ \E s \in Slots : LateReminderGet(s)
  \/ \E s \in Slots : LateHoursIsAdmin(s)
  \/ \E s \in Slots : LateHoursSet(s)
  \/ \E s \in Slots : VacationIsSubscribed(s)
  \/ \E s \in Slots : VacationSet(s)
  \/ \E s \in Slots : TimezoneIsSubscribed(s)
  \/ \E s \in Slots : TimezoneSet(s)
  \/ \E s \in Slots : BackGetStatus(s)
  \/ \E s \in Slots : BackDisable(s)

SpecCommands == InitCommands /\ [][NextCommands]_vars

(***************************************************************************)
(* The late-reminder check from one firing of the trigger to the date of   *)
(* its one-shot job: the trigger is at 09:00 or at 23:59 of a Tuesday, the *)
(* delay is 1 or 12 hours, so that the check is on the Tuesday or on the   *)
(* Wednesday; user 1, the only subscriber, answers the questions or not.   *)
(***************************************************************************)
\* The times of the trigger /set_time has stored, and the delays
\* /late_reminder_hours has stored.
OvernightTimes == {[hour |-> DefaultHour, minute |-> DefaultMinute],
                   [hour |-> 23, minute |-> 59]}
OvernightHours == {1, 12}

InitOvernight ==
  /\ \E time \in OvernightTimes, hours \in OvernightHours :
       /\ settings = [DefaultSettings EXCEPT !.standup_hour = time.hour,
                                            !.standup_minute = time.minute,
                                            !.late_reminder_hours = hours]
       /\ now = LateDay * MinutesPerDay + TimeOfDay(time.hour, time.minute) - 1
       /\ horizon = LateReminderTime(time.hour, time.minute, LateDay * MinutesPerDay)
  /\ InitProgram
  /\ actors = {1}
  /\ members = Users
  /\ subscriptions = [u \in actors |-> NewSubscription(FromName(u))]
  /\ samples = {}
  /\ eventBudget = MaxLateEvents
  /\ utcOffset = 0
  /\ hourCycle = "h23"

NextOvernight ==
  \/ ReceiveMessage
  \/ StartResolve
  \/ \E s \in Slots : MessageGuard(s)
  \/ \E s \in Slots : AddStandupDelete(s)
  \/ \E s \in Slots : AddStandupInsert(s)
  \/ AdvanceClock
  \/ TickGetActiveSubscribers
  \/ TickScheduleAndStart
  \/ LateCleanup
  \/ LateStatusSubscribers
  \/ LateStatusStandups
  \/ LateGetSubscriber
  \/ LateHasReceived
  \/ LateSendReminder
  \/ LateRecord

SpecOvernight == InitOvernight /\ [][NextOvernight]_vars

(***************************************************************************)
(* The commands of the administrators, with the clock at rest on a         *)
(* Tuesday at 10:00: nobody is subscribed at first, and both users, the    *)
(* one with a username and the one without, send /subscribe, /set_time,    *)
(* /late_reminder and /late_reminder_hours.                                *)
(***************************************************************************)
InitAdmin ==
  /\ settings = DefaultSettings
  /\ InitProgram
  /\ actors = Users
  /\ members = Users
  /\ subscriptions = EmptyMap
  /\ now = LateDay * MinutesPerDay + TimeOfDay(10, 0)
  /\ horizon = now
  /\ samples = {}
  /\ eventBudget = MaxCommandEvents
  /\ utcOffset = 0
  /\ hourCycle = "h23"

NextAdmin ==
  \/ ReceiveSubscribe
  \/ ReceiveSetTimeOther
  \/ ReceiveLateReminder
  \/ ReceiveLateHours
  \/ \E s \in Slots : SubscribeGuard(s)
  \/ \E s \in Slots : SubscribeIsSubscribed(s)
  \/ \E s \in Slots : SubscribeAdd(s)
  \/ \E s \in Slots : SetTimeGuard(s)
  \/ \E s \in Slots : SetTimeIsAdmin(s)
  \/ \E s \in Slots : SetTimeUpdateHour(s)
  \/ \E s \in Slots : SetTimeUpdateMinute(s)
  \/ RescheduleResolve
  \/ \E s \in Slots : CommandGuard(s)
  \/ \E s \in Slots : LateReminderIsAdmin(s)
  \/ \E s \in Slots : LateReminderSet(s)
  \/ \E s \in Slots : LateReminderGet(s)
  \/ \E s \in Slots : LateHoursIsAdmin(s)
  \/ \E s \in Slots : LateHoursSet(s)

SpecAdmin == InitAdmin /\ [][NextAdmin]_vars

(***************************************************************************)
(* Properties of the interview engine.                                     *)
(***************************************************************************)
Live(u) == Has(userStates, u)
CompletionsInFlight(u) ==
  Cardinality({s \in Slots : Completing(tasks[s]) /\ tasks[s].user = u})
\* The rows of standups a user submitted on the local calendar day of now.
TodayRows(u) ==
  {i \in DOMAIN standups :
     standups[i].user_id = u /\ Day(standups[i].submitted_at) = Day(now)}

\* C1: a start-interview event that finds its participant with a live
\* session is rejected: a /standup that reaches its userStates.has check
\* ends there (with the already-ongoing message when the sender is a channel
\* member), and a firing of the weekday trigger starts nothing for that
\* participant; in both cases the session's index and answers are unchanged.
C1_LiveSessionRejectsStart ==
  [][\A u \in Users :
       Live(u) =>
         /\ \A s \in Slots :
              (/\ tasks[s].kind = "standup" /\ tasks[s].pc = "guard"
               /\ tasks[s].user = u /\ tasks'[s] # tasks[s]) =>
                /\ tasks'[s] = Idle
                /\ isChannelMember(u) => lastReply'[u] = "alreadyOngoing"
                /\ pendingStart' = pendingStart
                /\ userStates' = userStates
                /\ standupResponses' = standupResponses
         /\ ticks' # ticks =>
              /\ pendingStart'[u] <= pendingStart[u]
              /\ userStates' = userStates
              /\ standupResponses' = standupResponses]_vars

\* C2: of the start-interview events of one participant that are under way
\* at the same time, exactly one creates a session: a participant never has
\* two accepted starts, nor an accepted start next to a live session.
C2_ConcurrentStartsCreateOneSession ==
  \A u \in Users : pendingStart[u] + (IF Live(u) THEN 1 ELSE 0) <= 1

\* C3: a /skip that reaches a live session stores the empty answer and
\* advances exactly at question 0 and at question 2 (where it completes the
\* session); at question 1 it is answered with the cannot-skip message and
\* the index and the answers are unchanged.
C3_SkipOnlyYesterdayAndBlockers ==
  [][\A s \in Slots :
       (/\ tasks[s].kind = "skip" /\ tasks[s].pc = "guard"
        /\ tasks'[s] # tasks[s]
        /\ isChannelMember(tasks[s].user)
        /\ Live(tasks[s].user)) =>
         LET u == tasks[s].user
             q == userStates[u]
         IN IF q = 1
            THEN /\ lastReply'[u] = "cannotSkip"
                 /\ userStates' = userStates
                 /\ standupResponses' = standupResponses
            ELSE /\ Has(standupResponses', u)
                 /\ standupResponses'[u].answers[q + 1] = Skipped
                 /\ q = 0 => (Has(userStates', u) /\ userStates'[u] = 1)
                 /\ q = 2 => (~Has(userStates', u)
                              /\ nCompleted'[u] = nCompleted[u] + 1)]_vars

\* C3 witness: yesterday was skipped, then a skip of the today question was
\* refused and the session still awaits the today question.
C3_Witness ==
  /\ Live(1) /\ userStates[1] = 1
  /\ lastReply[1] = "cannotSkip"
  /\ Has(standupResponses, 1) /\ standupResponses[1].answers[1] = Skipped

\* C4 as stated: once no completion of a participant is under way, every
\* session that reached Completed has had exactly one summary sent.
C4_ExactlyOneSummaryPerCompletion ==
  \A u \in Users :
    /\ nEmitted[u] <= nCompleted[u]
    /\ CompletionsInFlight(u) = 0 => nEmitted[u] = nCompleted[u]

\* C4 amended: every session completes at most once; a completion sends
\* exactly one summary if its addStandup resolves and none if it rejects,
\* and no summary is sent without a completion.
C4_OneSummaryPerPersistedCompletion ==
  \A u \in Users :
    /\ nCompleted[u] <= nStarted[u]
    /\ nEmitted[u] + nPersistFailed[u] + CompletionsInFlight(u) = nCompleted[u]

\* C4 witness: two events raced for the last question of a session that
\* completed once and whose summary was sent once.
C4_Witness ==
  /\ nStarted[1] = 1 /\ nCompleted[1] = 1 /\ nEmitted[1] = 1
  /\ \E s \in Slots : tasks[s].kind = "message" /\ tasks[s].pc = "guard"
  /\ standups # <<>>

\* C5: after the completions of a participant on one day (none under way,
\* none rejected by the store) the store holds exactly one Response of that
\* participant for the day, with the answers of the latest completion.
C5_OneResponsePerDayLatestWins ==
  \A u \in Users :
    (nCompleted[u] >= 1 /\ nPersistFailed[u] = 0 /\ CompletionsInFlight(u) = 0) =>
      /\ Cardinality(TodayRows(u)) = 1
      /\ \A i \in TodayRows(u) : standups[i].answers = lastCompletion[u]

(***************************************************************************)
(* Properties of the weekday trigger.                                      *)
(***************************************************************************)
\* The minute of the day of the configured trigger.
TriggerMinute == TimeOfDay(settings.standup_hour, settings.standup_minute)
\* A subscriber whose vacation flag is set and whose vacation has not ended.
CurrentlyOnVacation(row, t) == row.is_on_vacation /\ row.vacation_until >= Day(t)
ActiveSubscriber(u, t) ==
  Has(subscriptions, u) /\ ~CurrentlyOnVacation(subscriptions[u], t)
\* Every firing of minute now has run to its end, and none ended in its catch.
MinuteEvaluated == ticks = <<>> /\ ~tickFailed

\* C6: at every minute the clock is read, once the trigger has evaluated
\* that minute, the users it opened an interview for are exactly the active
\* subscribers whose local hour:minute is the trigger's, if the minute falls
\* on a weekday, and nobody otherwise.
C6_TriggerOpensExactlyTheMatching ==
  MinuteEvaluated =>
    \A u \in Users :
      u \in opened <=>
        /\ ActiveSubscriber(u, now)
        /\ Weekday(Day(now))
        /\ LocalMinuteOfDay(subscriptions[u].timezone, now) = TriggerMinute

\* C7: on a weekday an active subscriber of any zone is matched at the
\* minute their local time is the trigger's (a subscriber five hours behind
\* and a trigger at 09:00: when the clock reads 14:00), and not at the
\* minute before or after it.
C7_MatchedAtOwnLocalTriggerTime ==
  (MinuteEvaluated /\ Weekday(Day(now))) =>
    \A u \in Users :
      ActiveSubscriber(u, now) =>
        LET local == LocalMinuteOfDay(subscriptions[u].timezone, now)
        IN /\ local = TriggerMinute => u \in opened
           /\ local \in {TriggerMinute - 1, TriggerMinute + 1} => u \notin opened

\* C12: at the trigger's minute of a weekday, once the trigger has
\* evaluated it, a subscriber whose vacation flag is set and whose local
\* time is the trigger's is left out exactly if the vacation end date is
\* today or later, and is opened an interview if the end date is past.
C12_VacationEndsAfterItsLastDay ==
  (MinuteEvaluated /\ Weekday(Day(now)) /\ MinuteOfDay(now) = TriggerMinute) =>
    \A u \in DOMAIN subscriptions :
      (/\ subscriptions[u].is_on_vacation
       /\ LocalMinuteOfDay(subscriptions[u].timezone, now) = TriggerMinute) =>
        (u \notin opened <=> subscriptions[u].vacation_until >= Day(now))

\* C12 witness: the trigger has fired on a weekday; it left out a
\* subscriber whose vacation ends today and opened an interview for one
\* whose vacation ended the day before, both flags set.
C12_Witness ==
  /\ MinuteEvaluated /\ Weekday(Day(now)) /\ MinuteOfDay(now) = TriggerMinute
  /\ \E u, v \in DOMAIN subscriptions :
       /\ subscriptions[u].is_on_vacation /\ subscriptions[v].is_on_vacation
       /\ subscriptions[u].vacation_until = Day(now) /\ u \notin opened
       /\ subscriptions[v].vacation_until = Day(now) - 1 /\ v \in opened

(***************************************************************************)
(* Properties of the installed jobs.                                       *)
(***************************************************************************)

\* C14: at every moment at most one recurring weekday trigger job is
\* live, whatever the interleaving of /set_time reconfigurations.
C14_AtMostOneRecurringJob == Len(cronJobs) <= 1

\* C15: whenever /set_time has reported success to an administrator, a
\* recurring trigger job is live.
C15_SuccessMeansJobInstalled ==
  (\E u \in Users : lastReply[u] = "timeSet") => Len(cronJobs) >= 1

\* C16: at most one late-reminder check job is pending at any time.
C16_AtMostOneLateJob == Len(lateJobs) <= 1

\* The times one command of an administrator can have stored, and the
\* default.
CommandPairs ==
  {<<DefaultHour, DefaultMinute>>} \cup
  {<<t.hour, t.minute>> : t \in {x \in SetTimeInputs \cup SetTimeOtherInputs :
                                   x.hour \in 0..23 /\ x.minute \in 0..59}}

\* C26: the stored hour and minute of the trigger, and the hour and
\* minute of every installed recurring job, are always a pair that one
\* /set_time command set together, or the default 09:00.
C26_HourAndMinuteFromOneCommand ==
  /\ <<settings.standup_hour, settings.standup_minute>> \in CommandPairs
  /\ \A i \in DOMAIN cronJobs :
       <<cronJobs[i].hour, cronJobs[i].minute>> \in CommandPairs

(***************************************************************************)
(* Properties of the late-reminder check.                                  *)
(***************************************************************************)
\* The late reminders sent to a user, and the rows of late_reminders of a
\* user, on the calendar day of now.
RemindersToday(u) == {i \in DOMAIN lateSent[u] : lateSent[u][i].day = Day(now)}
RecordsToday(u) ==
  {i \in DOMAIN lateReminders :
     lateReminders[i].user_id = u /\ Day(lateReminders[i].sent_at) = Day(now)}
\* The checks of minute now are over: at least one ran to the end of its
\* loop and no await of any of them was rejected.
CheckRanClean == lateChecks = <<>> /\ lateRuns.done >= 1 /\ ~lateRuns.rejected

\* C8: no user is sent two late reminders on one calendar day.
C8_AtMostOneLateReminderPerDay ==
  \A u \in Users :
    \A i, j \in DOMAIN lateSent[u] :
      i # j => lateSent[u][i].day # lateSent[u][j].day

\* C9: the table late_reminders never holds two rows of one user for one
\* calendar day.
C9_AtMostOneRecordPerDay ==
  \A i, j \in DOMAIN lateReminders :
    (i # j /\ lateReminders[i].user_id = lateReminders[j].user_id) =>
      Day(lateReminders[i].sent_at) # Day(lateReminders[j].sent_at)

\* C10: every late reminder was sent to a user who, at the moment of the
\* send, was subscribed, was not on vacation, had no Response of the day and
\* had no late-reminder record of the day.
C10_LateReminderOnlyToQualifying ==
  \A u \in Users :
    \A i \in DOMAIN lateSent[u] :
      /\ lateSent[u][i].subscribed
      /\ ~lateSent[u][i].onVacation
      /\ ~lateSent[u][i].hasResponse
      /\ ~lateSent[u][i].hasRecord

\* C11: once the late-reminder check has run, every subscriber whose
\* vacation flag is not set and who has no Response of the day has been sent
\* exactly one late reminder, and late_reminders holds exactly one row of
\* the day under that subscriber's own user_id.
C11_EveryMissingSubscriberReminded ==
  CheckRanClean =>
    \A u \in Users :
      (/\ Has(subscriptions, u)
       /\ ~subscriptions[u].is_on_vacation
       /\ ~HasResponseToday(u, now)) =>
        /\ Cardinality(RemindersToday(u)) = 1
        /\ Cardinality(RecordsToday(u)) = 1

\* C13: once the late-reminder check has run, a subscriber whose vacation
\* flag is set, whose vacation ended before today and who has no Response of
\* the day has been sent a late reminder.
C13_ExpiredVacationGetsLateReminder ==
  CheckRanClean =>
    \A u \in Users :
      (/\ Has(subscriptions, u)
       /\ subscriptions[u].is_on_vacation
       /\ subscriptions[u].vacation_until < Day(now)
       /\ ~HasResponseToday(u, now)) =>
        RemindersToday(u) # {}


\* C18: a late-reminder check is installed only by a step that reads the
\* enabled flag as true; a step that changes the flag installs, cancels,
\* starts and sends nothing; a check starts only by taking an installed
\* job, and a reminder or a record is made only by a check that runs.  So
\* a day's check runs only if the flag was true when it was installed,
\* and toggling the flag afterwards changes nothing.
C18_CheckFollowsFlagAtInstallation ==
  [][/\ (Len(lateJobs') > Len(lateJobs) => settings.late_reminder_enabled)
     /\ (settings'.late_reminder_enabled # settings.late_reminder_enabled =>
           UNCHANGED <<lateJobs, lateChecks, lateSent, lateReminders>>)
     /\ (Len(lateChecks') > Len(lateChecks) => Len(lateJobs') < Len(lateJobs))
     /\ (lateJobs' # lateJobs =>
           \/ (Len(lateJobs') > Len(lateJobs) /\ ticks' # ticks)
           \/ (Len(lateChecks') > Len(lateChecks) /\ now' > now))
     /\ (lateSent' # lateSent \/ lateReminders' # lateReminders =>
           lateChecks # <<>>)]_vars

\* C18 witness: the check of the day has run and sent a reminder, and the
\* flag, true when the check was installed, has been turned off since.
C18_Witness ==
  /\ ~settings.late_reminder_enabled
  /\ CheckRanClean
  /\ \E u \in Users : RemindersToday(u) # {}

\* C28: over one day on which nobody sends /standup, the trigger opens
\* at most one interview for each subscriber, whatever the firings and
\* the reconfigurations of the trigger time during the day.
C28_TriggerOpensOncePerDay ==
  \A u \in Users : nStarted[u] <= 1

\* The steps of a late-reminder check that evaluate one participant.
LoopSteps == {"getSubscriber", "hasReceived", "getChat", "record"}

\* C27: a failure while a late-reminder check evaluates one participant
\* skips only that participant: if other participants remain to be
\* evaluated, the step does not end the check.
C27_FailureSkipsOnlyOneParticipant ==
  [][(/\ Len(lateChecks) = 1
      /\ lateChecks[1].pc \in LoopSteps
      /\ Len(lateChecks[1].missing) > 1) =>
       lateChecks' # <<>>]_vars

(***************************************************************************)
(* Properties of the commands.                                             *)
(***************************************************************************)

\* C17: a manual /standup from a participant who is not an active
\* subscriber (not subscribed, or subscribed and currently on vacation)
\* starts no interview: the step of the /standup handler that ends it
\* calls startUserStandup only for an active subscriber.
C17_ManualStartOnlyForActiveSubscriber ==
  [][\A s \in Slots :
       (/\ tasks[s].kind = "standup"
        /\ tasks'[s] = Idle
        /\ pendingStart'[tasks[s].user] > pendingStart[tasks[s].user]) =>
         ActiveSubscriber(tasks[s].user, now)]_vars

\* The answers that refuse a command: not an administrator, a time out of
\* range, a delay outside 1-12, a date in the past, an unknown timezone,
\* no subscription.
Refusals == {"adminOnly", "invalidTime", "invalidHours", "pastDate",
             "invalidTimezone", "needSubscribe"}

\* A handler that has written to the database since its command came in.
Wrote(t) == t.kind \notin {"standup", "message"} /\ t.wrote

C20_NonMemberChangesNothing ==
  [][(\E s \in Slots : /\ tasks[s] # Idle
                       /\ tasks[s].user \notin members
                       /\ tasks'[s] # tasks[s]) =>
       UNCHANGED <<dbVars, sessionVars, pendingStart>>]_vars

\* The commands of the administrators.
AdminKinds == {"setTime", "lateReminder", "lateHours"}

\* C21: no step of a /set_time, /late_reminder or /late_reminder_hours
\* handler, no cancellation of the recurring job and no reinstallation
\* of it removes or changes a live session: the question index of every
\* session and the answers recorded so far stay as they were.
C21_ReconfigurationKeepsSessions ==
  [][(\/ \E s \in Slots : tasks[s].kind \in AdminKinds /\ tasks'[s] # tasks[s]
      \/ cronJobs' # cronJobs
      \/ reschedules' # reschedules) =>
       UNCHANGED <<userStates, standupResponses>>]_vars

\* C21 witness: a session is past its first question with an answer
\* recorded, and since then the administrator has changed the delay of
\* the late reminders.
C21_Witness ==
  /\ \E u \in Users : /\ Has(userStates, u) /\ userStates[u] >= 1
                       /\ Has(standupResponses, u)
                       /\ lastReply[u] = "lateHoursSet"
  /\ settings.late_reminder_hours # DefaultLateHours


\* C22: in every state the stored delay of the late reminders is in
\* 1..12, the stored hour of the trigger in 0..23 and the stored minute
\* in 0..59.
C22_StoredSettingsInRange ==
  /\ settings.late_reminder_hours \in 1..12
  /\ settings.standup_hour \in 0..23
  /\ settings.standup_minute \in 0..59

\* C22 witness: the administrator has stored the last minute of the day
\* and the largest delay, and a delay out of range has been refused.
C22_Witness ==
  /\ settings.standup_hour = 23 /\ settings.standup_minute = 59
  /\ settings.late_reminder_hours = 12
  /\ \E u \in Users : lastReply[u] = "invalidHours"


(***************************************************************************)
(* Properties of the completion.                                           *)
(***************************************************************************)
Titles(summary) == {summary.sections[i].title : i \in DOMAIN summary.sections}

\* The handler in slot s sends the summary of its response in this step.
Emits(s) ==
  /\ Completing(tasks[s]) /\ tasks[s].pc = "insert" /\ tasks'[s] = Idle
  /\ nEmitted'[tasks[s].user] > nEmitted[tasks[s].user]

\* An answer that is not empty: a text, even of white space.
NotEmpty(answer) == answer \notin {Undef, Skipped}

\* An answer with something to show: a text that is not only white space.
Shows(answer) == answer \notin {Undef, Skipped, Blank}

\* C23 as stated: the summary sent at a completion has a Today section,
\* a Yesterday section exactly if the yesterday answer is not empty, and
\* a Blockers section exactly if the blockers answer is not empty.
C23_SectionsForNonEmptyAnswers ==
  [][\A s \in Slots : Emits(s) =>
       LET a == tasks[s].response.answers
           t == Titles(channel'[tasks[s].user])
       IN /\ "Today" \in t
          /\ ("Yesterday" \in t <=> NotEmpty(a[1]))
          /\ ("Blockers" \in t <=> NotEmpty(a[3]))]_vars

\* C23 amended: the summary sent at a completion has a Today section, a
\* Yesterday section exactly if the yesterday answer is a text that is
\* not only white space, and a Blockers section exactly if the blockers
\* answer is such a text.
C23_SectionsForAnswersWithText ==
  [][\A s \in Slots : Emits(s) =>
       LET a == tasks[s].response.answers
           t == Titles(channel'[tasks[s].user])
       IN /\ "Today" \in t
          /\ ("Yesterday" \in t <=> Shows(a[1]))
          /\ ("Blockers" \in t <=> Shows(a[3]))]_vars

\* C23 witness: a summary has been sent for answers whose yesterday is
\* only white space and whose blockers are a text: it has the Today and
\* the Blockers sections and no Yesterday section.
C23_Witness ==
  \E u \in DOMAIN channel :
    /\ Has(lastCompletion, u)
    /\ lastCompletion[u][1] = Blank /\ lastCompletion[u][3] = "x"
    /\ Titles(channel[u]) = {"Today", "Blockers"}


\* C29: while a session exists, its question index stays or advances by
\* one: no step moves it backward or past a question.
C29_IndexAdvancesOneStep ==
  [][\A u \in Users :
       (Has(userStates, u) /\ Has(userStates', u)) =>
         userStates'[u] \in {userStates[u], userStates[u] + 1}]_vars

\* The handler in slot s, of a message or a /skip, reaches in this step
\* its check of the live sessions and finds none for its participant.
FindsNoSession(s) ==
  /\ tasks[s].kind \in {"message", "skip"} /\ tasks[s].pc = "guard"
  /\ tasks'[s] # tasks[s]
  /\ ~Has(userStates, tasks[s].user)

\* Nothing is created, stored, written or sent.
NoEffect ==
  UNCHANGED <<userStates, standupResponses, standups, subscriptions, settings,
              pendingStart, lastReply, channel, nEmitted>>

C24_SessionLiveWhilePersisting ==
  \A s \in Slots : Completing(tasks[s]) => Live(tasks[s].user)

\* C25: when db.addStandup rejects at a completion, by a message or by
\* /skip, the participant's session and the answers kept for it are
\* removed and the participant is told of the failure.
C25_FailedCompletionCleansUpAndReports ==
  [][\A u \in Users :
       nPersistFailed'[u] > nPersistFailed[u] =>
         /\ ~Has(userStates', u)
         /\ ~Has(standupResponses', u)
         /\ lastReply'[u] = "errorProcessing"]_vars

\* The row the INSERT of this step added to the table standups.
Persisted == standups'[Len(standups')]

\* C31: the answers shown in the summary sent to the channel at a
\* completion are the answers persisted by that completion: the summary
\* is the one the persisted row gives, whatever the participant did while
\* db.addStandup was pending.
C31_SummaryShowsPersistedAnswers ==
  [][\A s \in Slots : Emits(s) =>
       channel'[tasks[s].user].sections =
         formatStandupResponse([username |-> Persisted.username,
                                answers |-> Persisted.answers]).sections]_vars

\* No /set_time handler is in flight and no scheduleStandups call is
\* awaiting db.getStandupTime().
ReconfigurationsFinished ==
  /\ \A s \in Slots : tasks[s].kind # "setTime"
  /\ reschedules = 0

\* C32: once every /set_time command and every reinstallation it started
\* has finished, every live recurring trigger job fires at the hour and
\* minute stored in the settings.
C32_LiveJobFiresAtStoredTime ==
  ReconfigurationsFinished =>
    \A i \in DOMAIN cronJobs :
      /\ cronJobs[i].hour = settings.standup_hour
      /\ cronJobs[i].minute = settings.standup_minute

\* The minute at which the trigger of the check running at minute now
\* fired: the delay before it.
TriggerOfCheck == now - settings.late_reminder_hours * MinutesPerHour

\* User u completed an interview, persisted from the minute of the
\* trigger on and before the minute of the check.
CompletedSinceTrigger(u) ==
  \E i \in DOMAIN standups :
    /\ standups[i].user_id = u
    /\ TriggerOfCheck <= standups[i].submitted_at
    /\ standups[i].submitted_at < now

\* C33: a late-reminder check sends no late reminder to a participant
\* who completed an interview between the firing of the trigger that
\* installed the check and the check, whatever the time of the trigger
\* and the delay, also when the check falls on the next calendar day.
C33_NoLateReminderAfterCompletion ==
  [][\A u \in Users :
       Len(lateSent'[u]) > Len(lateSent[u]) => ~CompletedSinceTrigger(u)]_vars

\* C34: the settings (the time of the trigger, the flag and the delay of
\* the late reminder) are changed only by the command of a participant
\* whose username is one of the administrators' usernames; a first name
\* that equals one of them gives no right to change them.
C34_OnlyAdministratorHandleChangesSettings ==
  [][settings' # settings =>
       \A s \in Slots :
         (tasks[s].kind \in AdminKinds /\ tasks'[s] # tasks[s]) =>
           FromUsername(tasks[s].user) \in AdminUsernames]_vars


====
